---- MODULE Spec2Model ----
(***************************************************************************)
(* The OPC package graph engine of pptx/opc/package.py: OpcPackage, Part,  *)
(* PartFactory, RelationshipCollection, _Relationship and Unmarshaller.    *)
(*                                                                         *)
(* A part object is named by its identity ("A", "B", "C"); the package is  *)
(* named by PACKAGE_URI.  A relationship collection is the list _rels of   *)
(* _Relationship records; a relationship object is named by its position   *)
(* in that list.  A call's outcome is either Return(v) or Raise(exc).      *)
(* A relationship id 'rId<suffix>' is the sequence of the characters of    *)
(* its suffix, so 'rId1' is <<1>> and 'rId01' is <<0, 1>>.                 *)
(***************************************************************************)
EXTENDS Integers, Sequences, FiniteSets, TLC

\* ---------------------------------------------------------------- bounds
\* Longest package-level collection built in SpecRels.
MaxLen == 3
\* Most relationships in the whole graph built in Spec.
MaxRels == 4
\* The interpreter's recursion limit, in generator frames.
MaxDepth == 5
\* Most relationship records the reader produces in SpecUnmarshal.
MaxSRels == 3

\* -------------------------------------------------------------- universe
PACKAGE_URI == "/"
PartObjects == {"A", "B", "C"}
Sources == {PACKAGE_URI} \cup PartObjects
ExternalURIs == {"http://x"}
RT_OFFICE_DOCUMENT == "officeDocument"
RT_SLIDE == "slide"
RelTypes == {RT_OFFICE_DOCUMENT, RT_SLIDE}
\* None, where a relationship (a position, from 1) is expected.
None == 0

\* Outcomes of a call.
Return(v) == [kind |-> "return", val |-> v]
Raise(e) == [kind |-> "raise", exc |-> e]
Returned(r) == r.kind = "return"
Raised(r, e) == r.kind = "raise" /\ r.exc = e

\* 'rId%d' % n: the decimal digits of n, most significant first.
RECURSIVE Fmt(_)
Fmt(n) ==
    IF n < 10 THEN <<n>> ELSE Fmt(n \div 10) \o <<n % 10>>

\* The ids a caller of add_relationship passes: 'rId3' (leaving a gap below
\* it) and 'rId01' (which is not 'rId1'); get_or_add makes 'rId1', 'rId2', ...
RIdInputs == {<<3>>, <<0, 1>>}

\* ---------------------------------------------------------- _Relationship
\* _Relationship.__init__
Relationship(rId, reltype, target, external) ==
    [rId |-> rId, reltype |-> reltype, target |-> target,
     is_external |-> external]

\* Mutant: the target is handed out whatever the target mode.
target_part_any(rel) ==
    Return(rel.target)

\* _Relationship.target_part
target_part(rel) ==
    IF rel.is_external THEN Raise("ValueError") ELSE Return(rel.target)

\* PackURI.baseURI of a source's partname, and of PACKAGE_URI for the package:
\* the directory references are relative to.
baseURI(src) ==
    <<"baseURI", src>>

\* PackURI.relative_ref(baseURI): the reference to a partname as written in
\* the relationships item of a source with that base.
relative_ref(partname, base) ==
    <<"relative_ref", partname, base>>

\* _Relationship.target_ref; base is the relationship's _baseURI, the one of
\* the collection that made it.  A part is named by its partname.
target_ref(rel, base) ==
    IF rel.is_external THEN Return(rel.target)
    ELSE Return(relative_ref(rel.target, base))

\* ------------------------------------------------- RelationshipCollection
\* The attributes class RelationshipCollection defines.
RelationshipCollectionAttrs ==
    {"__getitem__", "__iter__", "__len__", "add_relationship", "get_or_add",
     "part_with_reltype", "part_with_rId", "xml", "_get_matching",
     "_get_rel_of_type", "_get_rels_of_type", "_next_rId", "_rIds"}

\* RelationshipCollection._rIds
_rIds(c) ==
    [i \in 1..Len(c) |-> c[i].rId]

\* The elements of a list.
Range(s) ==
    {s[i] : i \in 1..Len(s)}

\* x in list
InList(x, s) ==
    \E i \in 1..Len(s) : s[i] = x

\* Mutant: range(1, len(self)+1), one candidate short.
_next_rId_last_short(c) ==
    Len(c)

\* The candidates range(1, len(self)+2) yields.
_next_rId_last(c) ==
    Len(c) + 1

\* Mutant: the id is numbered by the length of the collection, without a
\* look at the ids in use.
_next_rId_by_count(c, n) ==
    Return(Fmt(Len(c) + 1))

\* RelationshipCollection._next_rId, from candidate n on.
RECURSIVE _next_rId_from(_, _)
_next_rId_from(c, n) ==
    IF n > _next_rId_last(c) THEN Raise("AssertionError")
    ELSE IF ~InList(Fmt(n), _rIds(c)) THEN Return(Fmt(n))
    ELSE _next_rId_from(c, n + 1)

\* RelationshipCollection._next_rId
_next_rId(c) ==
    _next_rId_from(c, 1)

\* A subscript is a string (an rId) or an integer (a list index).
StrKey(rId) == [str |-> rId]
IntKey(n) == [int |-> n]

\* isinstance(key, basestring)
is_basestring(key) ==
    "str" \in DOMAIN key

\* self._rels.__getitem__(n): list indices count from 0, negative ones from
\* the end.
list_getitem(c, n) ==
    IF 0 <= n /\ n < Len(c) THEN Return(n + 1)
    ELSE IF n < 0 /\ -n <= Len(c) THEN Return(Len(c) + n + 1)
    ELSE Raise("IndexError")

\* The loop of __getitem__ over self._rels, from position i on.
RECURSIVE first_with_rId(_, _, _)
first_with_rId(c, rId, i) ==
    IF i > Len(c) THEN Raise("KeyError")
    ELSE IF c[i].rId = rId THEN Return(i)
    ELSE first_with_rId(c, rId, i + 1)

\* RelationshipCollection.__getitem__
__getitem__(c, key) ==
    IF is_basestring(key) THEN first_with_rId(c, key.str, 1)
    ELSE list_getitem(c, key.int)

\* Mutant: the uniqueness check the source leaves commented out.
add_relationship_unique(c, reltype, target, rId, is_external) ==
    IF InList(rId, _rIds(c)) THEN [rels |-> c, ret |-> Raise("ValueError")]
    ELSE [rels |-> Append(c, Relationship(rId, reltype, target, is_external)),
          ret |-> Return(Len(c) + 1)]

\* RelationshipCollection.add_relationship: the new list and the new
\* relationship (its position).
add_relationship(c, reltype, target, rId, is_external) ==
    [rels |-> Append(c, Relationship(rId, reltype, target, is_external)),
     ret |-> Return(Len(c) + 1)]

\* Mutant: the two arguments compared the wrong way round.
matches_swapped(rel, reltype, target) ==
    LET t == target_part(rel)
    IN  IF ~Returned(t) THEN t
        ELSE Return(t.val = reltype /\ rel.reltype = target)

\* The test of _get_matching on one relationship: the target_part property
\* is read first.
matches(rel, reltype, target) ==
    LET t == target_part(rel)
    IN  IF ~Returned(t) THEN t
        ELSE Return(t.val = target /\ rel.reltype = reltype)

\* RelationshipCollection._get_matching, from position i on.
RECURSIVE _get_matching_from(_, _, _, _)
_get_matching_from(c, reltype, target, i) ==
    IF i > Len(c) THEN Return(None)
    ELSE LET m == matches(c[i], reltype, target)
         IN  IF ~Returned(m) THEN m
             ELSE IF m.val THEN Return(i)
             ELSE _get_matching_from(c, reltype, target, i + 1)

\* RelationshipCollection._get_matching
_get_matching(c, reltype, target) ==
    _get_matching_from(c, reltype, target, 1)

\* RelationshipCollection.get_or_add
get_or_add(c, reltype, target) ==
    LET rel == _get_matching(c, reltype, target)
    IN  IF ~Returned(rel) THEN [rels |-> c, ret |-> rel]
        ELSE IF rel.val = None
        THEN LET rId == _next_rId(c)
             IN  IF ~Returned(rId) THEN [rels |-> c, ret |-> rId]
                 ELSE add_relationship(c, reltype, target, rId.val, FALSE)
        ELSE [rels |-> c, ret |-> rel]

\* [rel for rel in self._rels if rel.reltype == reltype], as positions.
RECURSIVE _rels_of_type_from(_, _, _)
_rels_of_type_from(c, reltype, i) ==
    IF i > Len(c) THEN <<>>
    ELSE (IF c[i].reltype = reltype THEN <<i>> ELSE <<>>)
         \o _rels_of_type_from(c, reltype, i + 1)

\* Mutant: the first match is returned without the ambiguity test.
_get_rel_of_type_first(c, reltype) ==
    LET matching == _rels_of_type_from(c, reltype, 1)
    IN  IF Len(matching) = 0 THEN Raise("KeyError")
        ELSE Return(matching[1])

\* RelationshipCollection._get_rel_of_type
_get_rel_of_type(c, reltype) ==
    LET matching == _rels_of_type_from(c, reltype, 1)
    IN  IF Len(matching) = 0 THEN Raise("KeyError")
        ELSE IF Len(matching) > 1 THEN Raise("ValueError")
        ELSE Return(matching[1])

\* RelationshipCollection.part_with_reltype
part_with_reltype(c, reltype) ==
    LET rel == _get_rel_of_type(c, reltype)
    IN  IF ~Returned(rel) THEN rel ELSE target_part(c[rel.val])

\* ------------------------------------------------------------- OpcPackage
\* The method main_document calls on self._rels.
main_document_lookup == "get_rel_of_type"

\* self._rels.<name>(reltype) for the singular lookup: the attribute is
\* looked up on the collection first.
call_rel_lookup(name, c, reltype) ==
    IF name \notin RelationshipCollectionAttrs THEN Raise("AttributeError")
    ELSE _get_rel_of_type(c, reltype)

\* OpcPackage.main_document
main_document(c) ==
    LET rel == call_rel_lookup(main_document_lookup, c, RT_OFFICE_DOCUMENT)
    IN  IF ~Returned(rel) THEN rel ELSE target_part(c[rel.val])

\* The attributes class OpcPackage defines.
OpcPackageAttrs ==
    {"main_document", "open", "parts", "rels", "save", "_add_relationship",
     "_walk_parts"}

\* ------------------------------------------------------------------- Part
\* The attributes class Part defines.
PartAttrs ==
    {"after_unmarshal", "before_marshal", "blob", "content_type", "load",
     "package", "partname", "_add_relationship", "_rels"}

\* A subclass in client code that defines the method save calls.
ClientPartAttrs ==
    PartAttrs \cup {"_before_marshal"}

PartClasses == {"Part", "ClientPart"}

AttrsOf(cls) ==
    IF cls = "Part" THEN PartAttrs ELSE ClientPartAttrs

\* The method save calls on each part.
save_hook == "_before_marshal"

\* Part.__init__, for the class cls
Part(cls, partname, content_type, blob, package) ==
    [cls |-> cls, _partname |-> partname, _content_type |-> content_type,
     _blob |-> blob, _package |-> package]

\* Part.load, a classmethod: cls(partname, content_type, blob, package)
load(cls, partname, content_type, blob, package) ==
    Return(Part(cls, partname, content_type, blob, package))

\* ------------------------------------------------------------ PartFactory
\* PartFactory.default_part_type
default_part_type == "Part"

\* Mutant: the registry is subscripted without the membership test.
_part_cls_for_strict(part_type_for, content_type) ==
    IF content_type \in DOMAIN part_type_for
    THEN Return(part_type_for[content_type])
    ELSE Raise("KeyError")

\* PartFactory._part_cls_for; part_type_for is the class's registry.
_part_cls_for(part_type_for, content_type) ==
    IF content_type \in DOMAIN part_type_for
    THEN Return(part_type_for[content_type])
    ELSE Return(default_part_type)

\* PartFactory.__new__
PartFactory(part_type_for, partname, content_type, blob, package) ==
    LET PartClass == _part_cls_for(part_type_for, content_type)
    IN  IF ~Returned(PartClass) THEN PartClass
        ELSE load(PartClass.val, partname, content_type, blob, package)

\* --------------------------------------------- CT_Table (oxml/table.py)
\* An <a:tbl> element is the list of its <a:tblPr> children, each the
\* mapping of its attributes (name -> string).
BOOLPROPS ==
    {"bandCol", "bandRow", "firstCol", "firstRow", "lastCol", "lastRow"}

\* The value the setter writes: "1", as its docstring says.
XSD_TRUE == "1"

\* Element('a:tblPr'): no attributes.
NoAttrib == [p \in {} |-> XSD_TRUE]

\* elm.set(name, value)
attrib_set(attrib, name, value) ==
    [p \in DOMAIN attrib \cup {name} |->
        IF p = name THEN value ELSE attrib[p]]

\* del elm.attrib[name]
attrib_del(attrib, name) ==
    [p \in DOMAIN attrib \ {name} |-> attrib[p]]

\* self.tblPr: objectify hands out the first child of that name (its
\* position), or raises AttributeError when there is none.
tblPr(t) ==
    IF t.tblPr = <<>> THEN Raise("AttributeError") ELSE Return(1)

\* CT_Table.has_tblPr
has_tblPr(t) ==
    Returned(tblPr(t))

\* The values assigned, as Python literals, and their truth value.
PyValues == {"True", "False", "None", "'0'"}
truthy(value) ==
    value \notin {"False", "None", "0", "''"}

\* CT_Table._get_boolean_property
_get_boolean_property(t, propname) ==
    IF ~has_tblPr(t) THEN FALSE
    ELSE LET attrib == t.tblPr[tblPr(t).val]
         IN  /\ propname \in DOMAIN attrib
             /\ attrib[propname] \in {"1", "true"}

\* CT_Table._get_or_insert_tblPr: the element after the call; its tblPr is
\* then self.tblPr.
_get_or_insert_tblPr(t) ==
    IF ~has_tblPr(t) THEN [t EXCEPT !.tblPr = <<NoAttrib>> \o @] ELSE t

\* Mutant: a falsey value is written as "0" instead of removing the
\* attribute.
_set_boolean_property_zero(t, propname, value) ==
    IF truthy(value)
    THEN LET t1 == _get_or_insert_tblPr(t)
         IN  [t1 EXCEPT !.tblPr[1] = attrib_set(@, propname, XSD_TRUE)]
    ELSE LET t1 == _get_or_insert_tblPr(t)
         IN  [t1 EXCEPT !.tblPr[1] = attrib_set(@, propname, "0")]

\* CT_Table._set_boolean_property: the element after the call.
_set_boolean_property(t, propname, value) ==
    IF truthy(value)
    THEN LET t1 == _get_or_insert_tblPr(t)
         IN  [t1 EXCEPT !.tblPr[tblPr(t1).val] =
                            attrib_set(@, propname, XSD_TRUE)]
    ELSE IF ~has_tblPr(t) THEN t
    ELSE IF propname \in DOMAIN t.tblPr[tblPr(t).val]
    THEN [t EXCEPT !.tblPr[tblPr(t).val] = attrib_del(@, propname)]
    ELSE t

\* CT_Table._tbl_tmpl, as new_tbl parses it:
\* <a:tblPr firstRow="1" bandRow="1">
new_tbl ==
    [tblPr |-> <<[p \in {"firstRow", "bandRow"} |-> "1"]>>]

\* ------------------------------------------------------------------ state
VARIABLES
    rels,       \* source -> its RelationshipCollection._rels
    pc,         \* what the single thread is doing
    ret,        \* the last finished call: its name, arguments and outcome
    stack,      \* _walk_parts: the generator frames, [src, i], innermost last
    visited,    \* _walk_parts: visited_parts
    yielded,    \* _walk_parts: the parts yielded so far
    walk_for,   \* the caller the running walk returns to
    save_parts, \* save: the tuple the for loop iterates
    save_i,     \* save: the position of the for loop
    events,     \* the calls made on collaborators during the running call
    reader,     \* unmarshal: what pkg_reader produces, [sparts, srels]
    um_parts,   \* unmarshal: the keys of the dict parts, as inserted
    um_order,   \* unmarshal: the order of parts.values()
    um_i,       \* unmarshal: the position of the running for loop
    tbl         \* a CT_Table element: its <a:tblPr> children, in order

walk_locals == <<stack, visited, yielded, walk_for>>
save_locals == <<save_parts, save_i, events>>
um_locals == <<reader, um_parts, um_order, um_i>>
locals == <<walk_locals, save_locals, um_locals>>
vars == <<rels, pc, ret, locals, tbl>>

\* No call has finished since the running call began.
NoCall == [op |-> "none"]

\* A reader that produces nothing.
NoReader == [sparts |-> <<>>, srels |-> <<>>]

\* No call is running: its locals are gone.
NoLocals ==
    /\ stack = <<>>
    /\ visited = <<>>
    /\ yielded = <<>>
    /\ walk_for = "none"
    /\ save_parts = <<>>
    /\ save_i = 0
    /\ events = <<>>
    /\ reader = NoReader
    /\ um_parts = <<>>
    /\ um_order = <<>>
    /\ um_i = 0

\* OpcPackage.__init__ and the lazy Part._rels: every collection is empty.
\* CT_Table.new_tbl: the table of the template.
Init ==
    /\ rels = [s \in Sources |-> <<>>]
    /\ pc = "idle"
    /\ ret = NoCall
    /\ NoLocals
    /\ tbl = new_tbl

\* The running call ends with this record.
Finish(r) ==
    /\ pc' = "idle"
    /\ ret' = r
    /\ stack' = <<>>
    /\ visited' = <<>>
    /\ yielded' = <<>>
    /\ walk_for' = "none"
    /\ save_parts' = <<>>
    /\ save_i' = 0
    /\ events' = <<>>
    /\ reader' = NoReader
    /\ um_parts' = <<>>
    /\ um_order' = <<>>
    /\ um_i' = 0

TotalRels ==
    Len(rels[PACKAGE_URI]) + Len(rels["A"]) + Len(rels["B"]) + Len(rels["C"])

\* -------------------------------------------------- collection operations
\* source._add_relationship(reltype, target, rId, is_external)
AddRelationship(src, reltype, target, rId, ext) ==
    /\ pc = "idle"
    /\ LET r == add_relationship(rels[src], reltype, target, rId, ext)
       IN  /\ rels' = [rels EXCEPT ![src] = r.rels]
           /\ ret' = [op |-> "add_relationship", src |-> src,
                      reltype |-> reltype, target |-> target, rId |-> rId,
                      is_external |-> ext, before |-> rels[src],
                      out |-> r.ret]
    /\ UNCHANGED <<pc, locals>>
    /\ UNCHANGED tbl

\* The call before this one was the same call.
SameCallBefore(src, reltype, target) ==
    /\ ret.op = "get_or_add"
    /\ ret.src = src /\ ret.reltype = reltype /\ ret.target = target

\* source.rels.get_or_add(reltype, target_part)
GetOrAdd(src, reltype, target) ==
    /\ pc = "idle"
    /\ LET r == get_or_add(rels[src], reltype, target)
       IN  /\ rels' = [rels EXCEPT ![src] = r.rels]
           /\ ret' = [op |-> "get_or_add", src |-> src, reltype |-> reltype,
                      target |-> target, before |-> rels[src], out |-> r.ret,
                      first |-> IF SameCallBefore(src, reltype, target)
                                THEN ret.out ELSE [kind |-> "none"],
                      first_before |-> IF SameCallBefore(src, reltype, target)
                                       THEN ret.before ELSE <<>>]
    /\ UNCHANGED <<pc, locals>>
    /\ UNCHANGED tbl

\* source.rels._get_rel_of_type(reltype)
GetRelOfType(src, reltype) ==
    /\ pc = "idle"
    /\ ret' = [op |-> "_get_rel_of_type", src |-> src, reltype |-> reltype,
               before |-> rels[src],
               out |-> _get_rel_of_type(rels[src], reltype)]
    /\ UNCHANGED <<rels, pc, locals>>
    /\ UNCHANGED tbl

\* source.rels.part_with_reltype(reltype)
PartWithReltype(src, reltype) ==
    /\ pc = "idle"
    /\ ret' = [op |-> "part_with_reltype", src |-> src, reltype |-> reltype,
               before |-> rels[src],
               out |-> part_with_reltype(rels[src], reltype)]
    /\ UNCHANGED <<rels, pc, locals>>
    /\ UNCHANGED tbl

\* package.main_document
MainDocument ==
    /\ pc = "idle"
    /\ ret' = [op |-> "main_document", src |-> PACKAGE_URI,
               before |-> rels[PACKAGE_URI],
               out |-> main_document(rels[PACKAGE_URI])]
    /\ UNCHANGED <<rels, pc, locals>>
    /\ UNCHANGED tbl

\* source.rels[key]
GetItem(src, key) ==
    /\ pc = "idle"
    /\ ret' = [op |-> "__getitem__", src |-> src, key |-> key,
               before |-> rels[src], out |-> __getitem__(rels[src], key)]
    /\ UNCHANGED <<rels, pc, locals>>
    /\ UNCHANGED tbl

\* source.rels[i].target_part, for the relationship at position i
TargetPart(src, i) ==
    /\ pc = "idle"
    /\ ret' = [op |-> "target_part", src |-> src, rel |-> i,
               before |-> rels[src], out |-> target_part(rels[src][i])]
    /\ UNCHANGED <<rels, pc, locals>>
    /\ UNCHANGED tbl

\* source.rels[i].target_ref, for the relationship at position i
TargetRef(src, i) ==
    /\ pc = "idle"
    /\ ret' = [op |-> "target_ref", src |-> src, rel |-> i,
               before |-> rels[src],
               out |-> target_ref(rels[src][i], baseURI(src))]
    /\ UNCHANGED <<rels, pc, locals>>
    /\ UNCHANGED tbl

\* ---------------------------------------------------- the collection alone
\* The target parts given to the package-level collection.
RelsTargets == {"A", "B"}

RelsAdd ==
    /\ Len(rels[PACKAGE_URI]) < MaxLen
    /\ \E reltype \in RelTypes, rId \in RIdInputs :
          \/ \E t \in RelsTargets :
                AddRelationship(PACKAGE_URI, reltype, t, rId, FALSE)
          \/ \E u \in ExternalURIs :
                AddRelationship(PACKAGE_URI, reltype, u, rId, TRUE)

RelsGetOrAdd ==
    \E reltype \in RelTypes, t \in RelsTargets :
        /\ Len(get_or_add(rels[PACKAGE_URI], reltype, t).rels) <= MaxLen
        /\ GetOrAdd(PACKAGE_URI, reltype, t)

RelsLookup ==
    \E reltype \in RelTypes :
        \/ GetRelOfType(PACKAGE_URI, reltype)
        \/ PartWithReltype(PACKAGE_URI, reltype)

NextRels ==
    \/ RelsAdd
    \/ RelsGetOrAdd
    \/ RelsLookup
    \/ MainDocument

SpecRels == Init /\ [][NextRels]_vars

\* ------------------------------------- relationships added and read back
\* The subscripts tried: the ids given, an id never given, the first and
\* the last index, and an index past the end.
KeyInputs ==
    {StrKey(rId) : rId \in RIdInputs \cup {<<1>>}}
        \cup {IntKey(0), IntKey(-1), IntKey(MaxLen + 1)}

RelsGetItem ==
    \E key \in KeyInputs : GetItem(PACKAGE_URI, key)

RelsTarget ==
    \E i \in 1..Len(rels[PACKAGE_URI]) :
        \/ TargetPart(PACKAGE_URI, i)
        \/ TargetRef(PACKAGE_URI, i)

NextItems ==
    \/ RelsAdd
    \/ RelsGetItem
    \/ RelsTarget

SpecItems == Init /\ [][NextItems]_vars

\* ------------------------------------------------- OpcPackage._walk_parts
\* Mutant: the test "part in visited_parts" left out.
already_visited_never(part, visited_parts) ==
    FALSE

\* part in visited_parts
already_visited(part, visited_parts) ==
    InList(part, visited_parts)

\* Mutant: the test "rel.is_external" left out.
skips_external_never(rel) ==
    FALSE

\* if rel.is_external: continue
skips_external(rel) ==
    rel.is_external

\* Mutant: the part's own collection is walked only after the loops that
\* are already running have ended (breadth first).
recurse_later(frames, part) ==
    <<[src |-> part, i |-> 1]>> \o frames

\* for part in OpcPackage._walk_parts(part._rels, visited_parts): a new
\* innermost frame, which runs before the loop of its caller goes on.
recurse(frames, part) ==
    Append(frames, [src |-> part, i |-> 1])

\* self.parts is evaluated, in OpcPackage.parts or inside save: the
\* outermost generator frame iterates the package's own collection.
WalkBegin(caller) ==
    /\ stack' = <<[src |-> PACKAGE_URI, i |-> 1]>>
    /\ visited' = <<>>
    /\ yielded' = <<>>
    /\ walk_for' = caller
    /\ pc' = "walk"

\* The call the running walk belongs to, for its outcome.
WalkCall ==
    IF walk_for = "parts" THEN "parts" ELSE "save"

\* One step of the innermost generator frame: the for loop takes the next
\* relationship of its collection, or ends.
WalkStep ==
    /\ pc = "walk"
    /\ stack # <<>>
    /\ LET top == stack[Len(stack)]
           c == rels[top.src]
           rest == SubSeq(stack, 1, Len(stack) - 1)
           advanced == Append(rest, [src |-> top.src, i |-> top.i + 1])
       IN  IF top.i > Len(c)
           THEN \* the frame's loop is over: the generator returns
                /\ stack' = rest
                /\ UNCHANGED <<rels, pc, ret, visited, yielded, walk_for,
                               save_locals, um_locals>>
           ELSE IF skips_external(c[top.i])
           THEN /\ stack' = advanced
                /\ UNCHANGED <<rels, pc, ret, visited, yielded, walk_for,
                               save_locals, um_locals>>
           ELSE LET part == target_part(c[top.i])
                IN  IF ~Returned(part)
                    THEN /\ Finish([op |-> WalkCall, out |-> part,
                                    events |-> events, at |-> walk_for])
                         /\ UNCHANGED rels
                    ELSE IF already_visited(part.val, visited)
                    THEN /\ stack' = advanced
                         /\ UNCHANGED <<rels, pc, ret, visited, yielded,
                                        walk_for, save_locals, um_locals>>
                    ELSE IF Len(stack) >= MaxDepth
                    THEN \* the recursive call exceeds the recursion limit
                         /\ Finish([op |-> WalkCall,
                                    out |-> Raise("RecursionError"),
                                    events |-> events, at |-> walk_for])
                         /\ UNCHANGED rels
                    ELSE /\ visited' = Append(visited, part.val)
                         /\ yielded' = Append(yielded, part.val)
                         /\ stack' = recurse(advanced, part.val)
                         /\ UNCHANGED <<rels, pc, ret, walk_for,
                                        save_locals, um_locals>>
    /\ UNCHANGED tbl

\* package.parts: the walk is over and the tuple is returned.
PartsReturn ==
    /\ pc = "walk"
    /\ stack = <<>>
    /\ walk_for = "parts"
    /\ Finish([op |-> "parts", out |-> Return(yielded), events |-> <<>>,
               at |-> walk_for])
    /\ UNCHANGED rels
    /\ UNCHANGED tbl

\* package.parts
Parts ==
    /\ pc = "idle"
    /\ WalkBegin("parts")
    /\ ret' = NoCall
    /\ UNCHANGED <<rels, save_locals, um_locals>>
    /\ UNCHANGED tbl

\* -------------------------------------------------------- OpcPackage.save
\* package.save(pkg_file) begins: self.parts is evaluated for the for loop.
\* The outcome of the unmarshal that built the package stays on record until
\* the save ends.
SaveBegin ==
    /\ pc = "idle"
    /\ WalkBegin("save.loop")
    /\ ret' = IF ret.op = "unmarshal" THEN ret ELSE NoCall
    /\ UNCHANGED <<rels, save_locals, um_locals>>
    /\ UNCHANGED tbl

\* The walk for the for loop is over: the loop starts on the tuple.
SaveLoop ==
    /\ pc = "walk"
    /\ stack = <<>>
    /\ walk_for = "save.loop"
    /\ pc' = "save.loop"
    /\ save_parts' = yielded
    /\ save_i' = 1
    /\ stack' = <<>>
    /\ visited' = <<>>
    /\ yielded' = <<>>
    /\ walk_for' = "none"
    /\ UNCHANGED <<rels, ret, events, um_locals>>
    /\ UNCHANGED tbl

\* The call of save's method on a part, as recorded in events.
HookCall(part, raised) ==
    [call |-> save_hook, part |-> part, raised |-> raised]

\* Mutant: a failure of the method is swallowed and the loop goes on.
SaveHook_swallowing ==
    /\ pc = "save.loop"
    /\ save_i <= Len(save_parts)
    /\ \E raised \in BOOLEAN :
          events' = Append(events, HookCall(save_parts[save_i], raised))
    /\ save_i' = save_i + 1
    /\ UNCHANGED <<rels, pc, ret, walk_locals, save_parts, um_locals>>
    /\ UNCHANGED tbl

\* part._before_marshal() on the next part of the loop.  The part's class
\* and what its method does are client code: the class may define the
\* method or not, and the method may return or raise.  Where the class does
\* not define it, the attribute lookup raises and nothing is called.
SaveHook ==
    /\ pc = "save.loop"
    /\ save_i <= Len(save_parts)
    /\ \E cls \in PartClasses, raised \in BOOLEAN :
          LET part == save_parts[save_i]
          IN  IF save_hook \notin AttrsOf(cls)
              THEN /\ ~raised
                   /\ Finish([op |-> "save", out |-> Raise("AttributeError"),
                              events |-> events, at |-> pc])
              ELSE IF raised
              THEN Finish([op |-> "save", out |-> Raise("HookError"),
                           events |-> Append(events, HookCall(part, TRUE)),
                           at |-> pc])
              ELSE /\ events' = Append(events, HookCall(part, FALSE))
                   /\ save_i' = save_i + 1
                   /\ UNCHANGED <<pc, ret, walk_locals, save_parts,
                                  um_locals>>
    /\ UNCHANGED rels
    /\ UNCHANGED tbl

\* part._before_marshal() on the next part of the loop, where the part is of
\* a client class whose method adds a relationship from the part to a part,
\* with self._add_relationship and the next id of its collection, and
\* returns.
SaveHookAdding ==
    /\ pc = "save.loop"
    /\ save_i <= Len(save_parts)
    /\ save_hook \in AttrsOf("ClientPart")
    /\ TotalRels < MaxRels
    /\ LET part == save_parts[save_i]
       IN  /\ \E t \in PartObjects :
                 rels' = [rels EXCEPT ![part] =
                             add_relationship(@, RT_SLIDE, t,
                                              Fmt(Len(@) + 1), FALSE).rels]
           /\ events' = Append(events, HookCall(part, FALSE))
    /\ save_i' = save_i + 1
    /\ UNCHANGED <<pc, ret, walk_locals, save_parts, um_locals>>
    /\ UNCHANGED tbl

\* The loop is over: self.parts is evaluated again, for the writer.
SaveWalkAgain ==
    /\ pc = "save.loop"
    /\ save_i > Len(save_parts)
    /\ WalkBegin("save.write")
    /\ UNCHANGED <<rels, ret, save_locals, um_locals>>
    /\ UNCHANGED tbl

\* PackageWriter.write(pkg_file, self._rels, self.parts)
SaveWrite ==
    /\ pc = "walk"
    /\ stack = <<>>
    /\ walk_for = "save.write"
    /\ Finish([op |-> "save", out |-> Return(None),
               events |-> Append(events,
                                 [call |-> "PackageWriter.write",
                                  pkg_rels |-> rels[PACKAGE_URI],
                                  parts |-> yielded]),
               at |-> walk_for])
    /\ UNCHANGED rels
    /\ UNCHANGED tbl

\* -------------------------------------------------------- the whole graph
\* A relationship is added to the package or to a part, with the next id
\* of its collection: to a part, or to an external URI.
GraphAdd ==
    /\ TotalRels < MaxRels
    /\ \E src \in Sources :
          LET rId == Fmt(Len(rels[src]) + 1)
          IN  \/ \E t \in PartObjects :
                    AddRelationship(src, RT_SLIDE, t, rId, FALSE)
              \/ \E u \in ExternalURIs :
                    AddRelationship(src, RT_SLIDE, u, rId, TRUE)

Next ==
    \/ GraphAdd
    \/ Parts
    \/ WalkStep
    \/ PartsReturn
    \/ SaveBegin
    \/ SaveLoop
    \/ SaveHook
    \/ SaveWalkAgain
    \/ SaveWrite

Spec == Init /\ [][Next]_vars

\* ------------------------------- save with hooks that change the graph
NextSave ==
    \/ GraphAdd
    \/ SaveBegin
    \/ WalkStep
    \/ SaveLoop
    \/ SaveHook
    \/ SaveHookAdding
    \/ SaveWalkAgain
    \/ SaveWrite

SpecSave == Init /\ [][NextSave]_vars

\* ------------------------------------------------- the enumeration alone
NextParts ==
    \/ GraphAdd
    \/ Parts
    \/ WalkStep
    \/ PartsReturn

SpecParts == Init /\ [][NextParts]_vars

\* A call is straight-line code of the one thread: once it has begun, its
\* next step is taken.  Nothing obliges the client to make another call.
FairSpecParts == SpecParts /\ WF_vars(WalkStep \/ PartsReturn)

\* ----------------------------------------------------------- Unmarshaller
\* The partnames the reader may produce, and its relationship records: the
\* source is the package or a partname, the target a partname or an external
\* URI, the id is the one the file gives (here the record's number).
ReaderPartNames == {"A", "B"}

NoRepeat(s) ==
    \A i, j \in 1..Len(s) : s[i] = s[j] => i = j

\* pkg_reader.iter_sparts(): every part once, in the file's order.
SPartsInputs ==
    {s \in UNION {[1..n -> ReaderPartNames] :
                      n \in 0..Cardinality(ReaderPartNames)} : NoRepeat(s)}

SRelShapes ==
    [source_uri : {PACKAGE_URI} \cup ReaderPartNames,
     target : ReaderPartNames \cup ExternalURIs]

SRel(shape, n) ==
    [source_uri |-> shape.source_uri, rId |-> Fmt(n), reltype |-> RT_SLIDE,
     target |-> shape.target, is_external |-> shape.target \in ExternalURIs]

\* pkg_reader.iter_srels()
SRelsInputs ==
    UNION {{[i \in 1..n |-> SRel(f[i], i)] : f \in [1..n -> SRelShapes]} :
               n \in 0..MaxSRels}

\* The orders a dict's values() may have.
Orders(keys) ==
    {s \in [1..Len(keys) -> Range(keys)] : NoRepeat(s)}

\* Mutant: a lookup that hands back the key whether or not it was stored.
Lookup_lenient(keys, key) ==
    Return(key)

\* parts[key]
Lookup(keys, key) ==
    IF InList(key, keys) THEN Return(key) ELSE Raise("KeyError")

\* The outcome record of an unmarshal.
UnmarshalOutcome(out, ev) ==
    [op |-> "unmarshal", out |-> out, events |-> ev, reader |-> reader,
     parts |-> um_parts]

\* Unmarshaller.unmarshal(pkg_reader, package, part_factory) begins on a
\* new package.
Unmarshal ==
    /\ pc = "idle"
    /\ ret = NoCall
    /\ TotalRels = 0
    /\ \E sparts \in SPartsInputs, srels \in SRelsInputs :
          reader' = [sparts |-> sparts, srels |-> srels]
    /\ pc' = "unmarshal.parts"
    /\ um_i' = 1
    /\ UNCHANGED <<rels, ret, walk_locals, save_locals, um_parts, um_order>>
    /\ UNCHANGED tbl

\* Mutant: after_unmarshal is called on each part as soon as it is built.
UnmarshalPart_hooking ==
    /\ pc = "unmarshal.parts"
    /\ IF um_i <= Len(reader.sparts)
       THEN /\ um_parts' = Append(um_parts, reader.sparts[um_i])
            /\ events' = Append(events, [call |-> "after_unmarshal",
                                         on |-> reader.sparts[um_i]])
            /\ um_i' = um_i + 1
            /\ UNCHANGED pc
       ELSE /\ pc' = "unmarshal.rels"
            /\ um_i' = 1
            /\ UNCHANGED <<um_parts, events>>
    /\ UNCHANGED <<rels, ret, walk_locals, save_parts, save_i, reader,
                   um_order>>
    /\ UNCHANGED tbl

\* _unmarshal_parts: one turn of its loop, parts[partname] = part_factory(..),
\* or the loop's end.
UnmarshalPart ==
    /\ pc = "unmarshal.parts"
    /\ IF um_i <= Len(reader.sparts)
       THEN /\ um_parts' = Append(um_parts, reader.sparts[um_i])
            /\ um_i' = um_i + 1
            /\ UNCHANGED pc
       ELSE /\ pc' = "unmarshal.rels"
            /\ um_i' = 1
            /\ UNCHANGED um_parts
    /\ UNCHANGED <<rels, ret, walk_locals, save_locals, reader, um_order>>
    /\ UNCHANGED tbl

\* _unmarshal_relationships: one turn of its loop, or the loop's end, where
\* the loop over parts.values() begins.
UnmarshalRelationship ==
    /\ pc = "unmarshal.rels"
    /\ IF um_i <= Len(reader.srels)
       THEN LET srel == reader.srels[um_i]
                source == IF srel.source_uri = PACKAGE_URI
                          THEN Return(PACKAGE_URI)
                          ELSE Lookup(um_parts, srel.source_uri)
                target == IF srel.is_external THEN Return(srel.target)
                          ELSE Lookup(um_parts, srel.target)
            IN  IF ~Returned(source)
                THEN Finish(UnmarshalOutcome(source, events)) /\ UNCHANGED rels
                ELSE IF ~Returned(target)
                THEN Finish(UnmarshalOutcome(target, events)) /\ UNCHANGED rels
                ELSE /\ rels' = [rels EXCEPT ![source.val] =
                                    add_relationship(@, srel.reltype,
                                        target.val, srel.rId,
                                        srel.is_external).rels]
                     /\ um_i' = um_i + 1
                     /\ UNCHANGED <<pc, ret, walk_locals, save_locals, reader,
                                    um_parts, um_order>>
       ELSE /\ pc' = "unmarshal.hooks"
            /\ um_i' = 1
            /\ um_order' \in Orders(um_parts)
            /\ UNCHANGED <<rels, ret, walk_locals, save_locals, reader,
                           um_parts>>
    /\ UNCHANGED tbl

\* unmarshal: one turn of the loop calling part.after_unmarshal(), or, at
\* its end, package.after_unmarshal().
UnmarshalHook ==
    /\ pc = "unmarshal.hooks"
    /\ IF um_i <= Len(um_order)
       THEN /\ events' = Append(events, [call |-> "after_unmarshal",
                                         on |-> um_order[um_i]])
            /\ um_i' = um_i + 1
            /\ UNCHANGED <<pc, ret, walk_locals, save_parts, save_i,
                           reader, um_parts, um_order>>
       ELSE IF "after_unmarshal" \notin OpcPackageAttrs
       THEN Finish(UnmarshalOutcome(Raise("AttributeError"), events))
       ELSE Finish(UnmarshalOutcome(Return(None),
                       Append(events, [call |-> "after_unmarshal",
                                       on |-> PACKAGE_URI])))
    /\ UNCHANGED rels
    /\ UNCHANGED tbl

NextUnmarshal ==
    \/ Unmarshal
    \/ UnmarshalPart
    \/ UnmarshalRelationship
    \/ UnmarshalHook

SpecUnmarshal == Init /\ [][NextUnmarshal]_vars

\* ------------------------------------------------------ the factory alone
\* The content types of the parts, the payloads, and the registries client
\* code may have set up in PartFactory.part_type_for.
ContentTypes == {"application/slide+xml", "image/png", "application/x-new"}
Blobs == {"b1", "b2"}
Registries ==
    UNION {[D -> PartClasses] : D \in SUBSET ContentTypes}

\* part_factory(partname, content_type, blob, package)
PartFactoryCall ==
    /\ pc = "idle"
    /\ \E reg \in Registries, partname \in ReaderPartNames,
          content_type \in ContentTypes, blob \in Blobs :
          ret' = [op |-> "PartFactory", part_type_for |-> reg,
                  partname |-> partname, content_type |-> content_type,
                  blob |-> blob, package |-> PACKAGE_URI,
                  out |-> PartFactory(reg, partname, content_type, blob,
                                      PACKAGE_URI)]
    /\ UNCHANGED <<rels, pc, locals>>
    /\ UNCHANGED tbl

SpecFactory == Init /\ [][PartFactoryCall]_vars

\* -------------------------------------------------------- the table alone
\* The attribute values an <a:tblPr> read from a file may carry, and the
\* <a:tbl> elements read: without an <a:tblPr>, or with one carrying any of
\* the boolean attributes.
AttrValues == {"1", "true", "0"}
TblInputs ==
    {[tblPr |-> <<>>]}
        \cup {[tblPr |-> <<a>>] :
                  a \in UNION {[D -> AttrValues] : D \in SUBSET BOOLPROPS}}

\* parse_xml_bytes(xml): the table element is the one of a slide read from
\* a file, before anything is done with it.
TableParse ==
    /\ pc = "idle"
    /\ ret = NoCall
    /\ tbl' \in TblInputs
    /\ ret' = [op |-> "parse_xml_bytes"]
    /\ UNCHANGED <<rels, pc, locals>>

\* tbl.<attr> = value, for a boolean property: CT_Table.__setattr__
TableSet ==
    /\ pc = "idle"
    /\ \E attr \in BOOLPROPS, value \in PyValues :
          /\ tbl' = _set_boolean_property(tbl, attr, value)
          /\ ret' = [op |-> "__setattr__", attr |-> attr, value |-> value,
                     before |-> tbl]
    /\ UNCHANGED <<rels, pc, locals>>

\* tbl.<attr>, for a boolean property: CT_Table.__getattr__
TableGet ==
    /\ pc = "idle"
    /\ \E attr \in BOOLPROPS :
          ret' = [op |-> "__getattr__", attr |-> attr, before |-> tbl,
                  out |-> Return(_get_boolean_property(tbl, attr))]
    /\ UNCHANGED <<rels, pc, locals, tbl>>

NextTable ==
    \/ TableParse
    \/ TableSet
    \/ TableGet

SpecTable == Init /\ [][NextTable]_vars

\* ------------------------------------------------- unmarshal and then save
NextRoundTrip ==
    \/ Unmarshal
    \/ UnmarshalPart
    \/ UnmarshalRelationship
    \/ UnmarshalHook
    \/ SaveBegin
    \/ WalkStep
    \/ SaveLoop
    \/ SaveHook
    \/ SaveWalkAgain
    \/ SaveWrite

SpecRoundTrip == Init /\ [][NextRoundTrip]_vars

\* ----------------------------------------------------------------- claims
\* The target parts of the internal relationships of a source.
InternalTargets(src) ==
    {rels[src][i].target : i \in {j \in 1..Len(rels[src]) :
                                      ~rels[src][j].is_external}}

\* The parts within n internal relationships of the parts S.
RECURSIVE Within(_, _)
Within(S, n) ==
    IF n = 0 THEN S
    ELSE Within(S \cup UNION {InternalTargets(p) : p \in S}, n - 1)

\* The parts with a path of internal relationships from the package.
Reachable ==
    Within(InternalTargets(PACKAGE_URI), Cardinality(PartObjects))

\* C1: OpcPackage.parts returns exactly the parts reachable from the
\* package's own collection through internal relationships, each once; a
\* part with no path from the package never appears.
C1_PartsAreTheReachableParts ==
    ret.op = "parts" =>
        /\ Returned(ret.out)
        /\ Range(ret.out.val) = Reachable
        /\ Len(ret.out.val) = Cardinality(Reachable)

\* A cycle A -> B -> A under the package, and a part C that has a
\* relationship of its own but no path from the package.
C1_Witness ==
    /\ ret.op = "parts"
    /\ ret.out = Return(<<"A", "B">>)
    /\ "A" \in InternalTargets("B")
    /\ rels["C"] # <<>>

\* C2: a walk that has begun ends, cycles and self-references included, and
\* returns its tuple; for package -> A, A -> B, B -> A the tuple is (A, B).
C2_WalkTerminates ==
    (pc = "walk" /\ walk_for = "parts")
        ~> /\ ret.op = "parts"
           /\ Returned(ret.out)
           /\ ( /\ InternalTargets(PACKAGE_URI) = {"A"}
                /\ InternalTargets("A") = {"B"}
                /\ InternalTargets("B") = {"A"} )
                 => ret.out.val = <<"A", "B">>

\* The walk of package -> A, A -> B, B -> A, A -> A has ended.
C2_Witness ==
    /\ ret.op = "parts"
    /\ Returned(ret.out)
    /\ InternalTargets(PACKAGE_URI) = {"A"}
    /\ InternalTargets("A") = {"A", "B"}
    /\ InternalTargets("B") = {"A"}

Min(S) ==
    CHOOSE x \in S : \A y \in S : x <= y

\* The numbers n in 1..len+1 for which 'rIdn' is no relationship's id.
UnusedNumbers(c) ==
    {n \in 1..(Len(c) + 1) : \A i \in 1..Len(c) : c[i].rId # Fmt(n)}

\* The internal relationships of c with this reltype and this target part.
InternalMatches(c, reltype, target) ==
    {i \in 1..Len(c) : /\ ~c[i].is_external
                       /\ c[i].reltype = reltype
                       /\ c[i].target = target}

\* The relationships of c with this reltype.
OfType(c, reltype) ==
    {i \in 1..Len(c) : c[i].reltype = reltype}

\* C3: in every collection, gaps and duplicated ids included, _next_rId
\* returns 'rId'+n for the smallest n >= 1 that no relationship's id uses; n
\* is among the len+1 candidates scanned, the assertion is never reached, and
\* the relationship get_or_add adds carries that id.
C3_NextRIdSmallestUnused ==
    LET c == rels[PACKAGE_URI]
    IN  /\ UnusedNumbers(c) # {}
        /\ _next_rId(c) = Return(Fmt(Min(UnusedNumbers(c))))
        /\ (ret.op = "get_or_add" /\ Len(rels[ret.src]) > Len(ret.before))
              => /\ UnusedNumbers(ret.before) # {}
                 /\ rels[ret.src][Len(rels[ret.src])].rId
                       = Fmt(Min(UnusedNumbers(ret.before)))

\* get_or_add filled the gap: 'rId2' was given in ['rId1', 'rId3'].
C3_Witness ==
    /\ ret.op = "get_or_add"
    /\ Len(rels[ret.src]) > Len(ret.before)
    /\ InList(<<1>>, _rIds(ret.before))
    /\ InList(<<3>>, _rIds(ret.before))
    /\ rels[ret.src][Len(rels[ret.src])].rId = <<2>>

\* C4: a get_or_add repeated with the same reltype and target part has the
\* outcome of the first call (the same relationship) and leaves the
\* collection as it was.
C4_GetOrAddIdempotent ==
    (ret.op = "get_or_add" /\ ret.first.kind # "none")
        => /\ ret.out = ret.first
           /\ rels[ret.src] = ret.before

\* The first call added the relationship, the second returned it.
C4_Witness ==
    /\ ret.op = "get_or_add"
    /\ Returned(ret.first)
    /\ Len(ret.first_before) < Len(ret.before)
    /\ ret.out = Return(Len(rels[ret.src]))
    /\ Len(rels[ret.src]) = Len(ret.before)

\* C5: get_or_add never matches an external relationship: it returns the
\* first internal relationship with that reltype and target when there is
\* one, and otherwise adds an internal relationship with the next id.
C5_ExternalNeverMatched ==
    ret.op = "get_or_add" =>
        LET c == ret.before
            M == InternalMatches(c, ret.reltype, ret.target)
        IN  IF M # {}
            THEN /\ ret.out = Return(Min(M))
                 /\ rels[ret.src] = c
            ELSE /\ ret.out = Return(Len(c) + 1)
                 /\ rels[ret.src] =
                       Append(c, Relationship(Fmt(Min(UnusedNumbers(c))),
                                              ret.reltype, ret.target, FALSE))

C7_MainDocument ==
    ret.op = "main_document" =>
        LET c == ret.before
            M == OfType(c, RT_OFFICE_DOCUMENT)
        IN  /\ Cardinality(M) = 0 => Raised(ret.out, "KeyError")
            /\ (Cardinality(M) = 1 /\ ~c[Min(M)].is_external)
                  => ret.out = Return(c[Min(M)].target)
            /\ Cardinality(M) >= 2 => Raised(ret.out, "ValueError")

\* The calls of the before_marshal hook on these parts, in their order.
HookCalls(parts) ==
    [i \in 1..Len(parts) |->
        [call |-> "before_marshal", part |-> parts[i], raised |-> FALSE]]

\* The calls of the writer among these events.
WriterCalls(ev) ==
    {i \in 1..Len(ev) : ev[i].call = "PackageWriter.write"}

\* C8: a save calls before_marshal on every reachable part in the order of
\* the enumeration and then the writer, once, with the package relationships
\* and the parts; it ends early only when a hook fails, and then no writer
\* call came before.
C8_HooksThenWriter ==
    ret.op = "save" =>
        LET ev == ret.events
        IN  IF Returned(ret.out)
            THEN /\ Len(ev) >= 1
                 /\ WriterCalls(ev) = {Len(ev)}
                 /\ Range(ev[Len(ev)].parts) = Reachable
                 /\ ev[Len(ev)].pkg_rels = rels[PACKAGE_URI]
                 /\ SubSeq(ev, 1, Len(ev) - 1) = HookCalls(ev[Len(ev)].parts)
            ELSE /\ Raised(ret.out, "HookError")
                 /\ WriterCalls(ev) = {}

\* The calls among these events that raised.
FailedCalls(ev) ==
    {i \in 1..Len(ev) : ev[i].call # "PackageWriter.write" /\ ev[i].raised}

\* C9: a save that fails, at a part's pre-marshal call or anywhere else,
\* ends with that failure and never calls the writer; a save whose loop has
\* made the call on all parts without a failure calls the writer, once and
\* last, and returns.
C9_AllOrNothing ==
    /\ WriterCalls(events) = {}
    /\ ret.op = "save" =>
          LET ev == ret.events
          IN  /\ FailedCalls(ev) # {} => Raised(ret.out, "HookError")
              /\ ~Returned(ret.out) => WriterCalls(ev) = {}
              /\ ret.at = "save.write" => Returned(ret.out)
              /\ Returned(ret.out) =>
                    /\ WriterCalls(ev) = {Len(ev)}
                    /\ Len(ev) = Len(ev[Len(ev)].parts) + 1

\* The call on A returned, the call on B raised, and save ended there.
C9_Witness ==
    /\ ret.op = "save"
    /\ Raised(ret.out, "HookError")
    /\ Len(ret.events) = 2
    /\ ~ret.events[1].raised
    /\ ret.events[2].raised
    /\ WriterCalls(ret.events) = {}

\* The relationships the reader gives a source, as that source's collection
\* holds them once they are all added.
RECURSIVE Wired(_, _)
Wired(srels, src) ==
    IF srels = <<>> THEN <<>>
    ELSE LET r == srels[Len(srels)]
             before == Wired(SubSeq(srels, 1, Len(srels) - 1), src)
         IN  IF r.source_uri = src
             THEN Append(before, [rId |-> r.rId, reltype |-> r.reltype,
                                  target |-> r.target,
                                  is_external |-> r.is_external])
             ELSE before

\* Every part of the reader is built and every relationship of the reader is
\* in its source's collection.
GraphBuilt(rd, built) ==
    /\ Range(built) = Range(rd.sparts)
    /\ \A src \in Sources : rels[src] = Wired(rd.srels, src)

\* C10: whenever an after_unmarshal hook is called or has been called, every
\* part the reader produces is built and every relationship it produces is
\* in its source's collection.
C10_HooksAfterGraphBuilt ==
    /\ (pc = "unmarshal.hooks" \/ events # <<>>)
          => GraphBuilt(reader, um_parts)
    /\ (ret.op = "unmarshal" /\ ret.events # <<>>)
          => GraphBuilt(ret.reader, ret.parts)

\* The hook of A is being called after B, built later, was given its
\* relationship back to A.
C10_Witness ==
    /\ pc = "unmarshal.hooks"
    /\ events = <<[call |-> "after_unmarshal", on |-> "A"]>>
    /\ reader.sparts = <<"A", "B">>
    /\ "B" \in InternalTargets("A")
    /\ "A" \in InternalTargets("B")

\* Every relationship record of the reader names a source and, when it is
\* internal, a target among the reader's parts.
WellFormed(rd) ==
    \A i \in 1..Len(rd.srels) :
        /\ rd.srels[i].source_uri \in {PACKAGE_URI} \cup Range(rd.sparts)
        /\ rd.srels[i].is_external \/ rd.srels[i].target \in Range(rd.sparts)

\* The after_unmarshal calls on these parts in their order, then on the
\* package.
AfterUnmarshalCalls(parts) ==
    [i \in 1..(Len(parts) + 1) |->
        [call |-> "after_unmarshal",
         on |-> IF i <= Len(parts) THEN parts[i] ELSE PACKAGE_URI]]

\* C11: the unmarshal of a well-formed container calls after_unmarshal on
\* every part once, in the order the parts were built from the reader's part
\* list, then on the package, and returns.
C11_HooksInConstructionOrder ==
    (ret.op = "unmarshal" /\ WellFormed(ret.reader))
        => /\ Returned(ret.out)
           /\ ret.events = AfterUnmarshalCalls(ret.reader.sparts)

\* The relationship records of the reader whose source, or whose target when
\* it is internal, is no part the reader produces.
Missing(rd) ==
    {i \in 1..Len(rd.srels) :
        \/ rd.srels[i].source_uri \notin {PACKAGE_URI} \cup Range(rd.sparts)
        \/ /\ ~rd.srels[i].is_external
           /\ rd.srels[i].target \notin Range(rd.sparts)}

\* Every collection holds exactly the first n records of the reader.
WiredUpTo(rd, n) ==
    \A src \in Sources : rels[src] = Wired(SubSeq(rd.srels, 1, n), src)

\* C12: the wiring adds the reader's records one by one, external ones with
\* their literal URI and without a lookup of the target, up to the first
\* record whose source or internal target was never built; there unmarshal
\* raises KeyError, adds nothing for that record or after it, and calls no
\* after_unmarshal hook.
C12_MissingPartFailsLoudly ==
    /\ pc = "unmarshal.rels" =>
          /\ WiredUpTo(reader, um_i - 1)
          /\ \A i \in Missing(reader) : i >= um_i
    /\ pc = "unmarshal.hooks" => Missing(reader) = {}
    /\ (ret.op = "unmarshal" /\ Missing(ret.reader) # {}) =>
          /\ Raised(ret.out, "KeyError")
          /\ ret.events = <<>>
          /\ WiredUpTo(ret.reader, Min(Missing(ret.reader)) - 1)

\* Part A alone was built; its relationship from the package and its
\* external relationship were wired, its relationship to B was not.
C12_Witness ==
    /\ ret.op = "unmarshal"
    /\ Raised(ret.out, "KeyError")
    /\ ret.reader.sparts = <<"A">>
    /\ Missing(ret.reader) = {3}
    /\ ret.reader.srels[3].target = "B"
    /\ InternalTargets(PACKAGE_URI) = {"A"}
    /\ Len(rels["A"]) = 1
    /\ rels["A"][1].is_external
    /\ rels["A"][1].target \in ExternalURIs

\* The depth-first pre-order of the graph g (source -> its list of
\* relationships): seen, extended by the walk of g[src] from position i on.
RECURSIVE DfsFrom(_, _, _, _)
DfsFrom(g, src, i, seen) ==
    IF i > Len(g[src]) THEN seen
    ELSE LET r == g[src][i]
         IN  IF r.is_external \/ InList(r.target, seen)
             THEN DfsFrom(g, src, i + 1, seen)
             ELSE DfsFrom(g, src, i + 1,
                          DfsFrom(g, r.target, 1, Append(seen, r.target)))

PreOrder(g) ==
    DfsFrom(g, PACKAGE_URI, 1, <<>>)

\* The relationship graph the reader describes.
ReaderGraph(rd) ==
    [src \in Sources |-> Wired(rd.srels, src)]

\* The target reference the reader's record was read from.
SerializedRef(srel) ==
    IF srel.is_external THEN srel.target
    ELSE relative_ref(srel.target, baseURI(srel.source_uri))

\* The target references of a source's relationships, recomputed.
TargetRefs(g, src) ==
    [i \in 1..Len(g[src]) |-> target_ref(g[src][i], baseURI(src))]

\* The target references of the records the reader gives a source.
RECURSIVE SerializedRefs(_, _)
SerializedRefs(srels, src) ==
    IF srels = <<>> THEN <<>>
    ELSE LET r == srels[Len(srels)]
             before == SerializedRefs(SubSeq(srels, 1, Len(srels) - 1), src)
         IN  IF r.source_uri = src
             THEN Append(before, Return(SerializedRef(r)))
             ELSE before

\* C13: a save that follows the unmarshal of a well-formed reader output,
\* and in which no part's own hook fails, returns after one writer call whose parts are the parts reachable from
\* the root in the reader's graph, in its depth-first order; every source's
\* collection holds the reader's records in the reader's order, and every
\* recomputed target reference is the one the record was read from.
C13_RoundTrip ==
    [][(/\ ret.op = "unmarshal" /\ WellFormed(ret.reader)
        /\ ret'.op = "save" /\ FailedCalls(ret'.events) = {})
          => LET rd == ret.reader
                 ev == ret'.events
             IN  /\ Returned(ret'.out)
                 /\ WriterCalls(ev) = {Len(ev)}
                 /\ ev[Len(ev)].parts = PreOrder(ReaderGraph(rd))
                 /\ rels' = ReaderGraph(rd)
                 /\ \A src \in Sources :
                       TargetRefs(rels', src) = SerializedRefs(rd.srels, src)
      ]_vars

\* C14: target_part of an external relationship raises ValueError and its
\* target_ref returns the URI given when it was added; target_part of an
\* internal relationship returns the part given when it was added.
C14_ExternalTargetAccess ==
    /\ ret.op = "target_part" =>
          LET rel == ret.before[ret.rel]
          IN  IF rel.is_external THEN Raised(ret.out, "ValueError")
              ELSE ret.out = Return(rel.target)
    /\ ret.op = "target_ref" =>
          LET rel == ret.before[ret.rel]
          IN  rel.is_external => ret.out = Return(rel.target)
    /\ ret.op = "add_relationship" =>
          LET rel == rels[ret.src][ret.out.val]
          IN  /\ rel.is_external = ret.is_external
              /\ rel.is_external => target_ref(rel, baseURI(ret.src))
                                       = Return(ret.target)
              /\ ~rel.is_external => target_part(rel) = Return(ret.target)

\* target_part was read on an external relationship that follows an
\* internal one.
C14_Witness ==
    /\ ret.op = "target_part"
    /\ ret.rel = 2
    /\ ~ret.before[1].is_external
    /\ ret.before[2].is_external
    /\ ret.before[2].target \in ExternalURIs
    /\ Raised(ret.out, "ValueError")

\* C15: OpcPackage.parts returns the depth-first pre-order of the graph that
\* follows every collection in insertion order: a part when it is first
\* reached, then all that is first reached through its own relationships,
\* then what the next relationship of the parent reaches.  The tuple is a
\* function of the graph, so every call on an unchanged graph returns it.
C15_DepthFirstPreOrder ==
    ret.op = "parts" => ret.out = Return(PreOrder(rels))

\* package -> A, package -> B, A -> C: C comes before B.
C15_Witness ==
    /\ ret.op = "parts"
    /\ ret.out = Return(<<"A", "C", "B">>)
    /\ Len(rels[PACKAGE_URI]) = 2
    /\ rels[PACKAGE_URI][1].target = "A"
    /\ rels[PACKAGE_URI][2].target = "B"
    /\ "C" \in InternalTargets("A")

\* C16: PartFactory returns a part for every content type: of the class
\* registered for the content type when there is one, and otherwise the
\* generic Part; the part carries the partname, content type, blob and
\* package given.
C16_FactoryNeverFails ==
    ret.op = "PartFactory" =>
        /\ Returned(ret.out)
        /\ ret.out.val.cls =
              (IF ret.content_type \in DOMAIN ret.part_type_for
               THEN ret.part_type_for[ret.content_type] ELSE "Part")
        /\ ret.out.val._partname = ret.partname
        /\ ret.out.val._content_type = ret.content_type
        /\ ret.out.val._blob = ret.blob
        /\ ret.out.val._package = ret.package

\* A content type that is not registered, in a registry that holds a client
\* class for another one: the generic Part is built.
C16_Witness ==
    /\ ret.op = "PartFactory"
    /\ ret.content_type = "application/x-new"
    /\ DOMAIN ret.part_type_for = {"application/slide+xml"}
    /\ ret.part_type_for["application/slide+xml"] = "ClientPart"
    /\ Returned(ret.out)
    /\ ret.out.val.cls = "Part"
    /\ ret.out.val._blob = "b2"

\* The relationships of c with this id.
WithRId(c, rId) ==
    {i \in 1..Len(c) : c[i].rId = rId}

\* C17: add_relationship with an id the collection already uses returns the
\* new relationship, appended at the end of a collection one longer and
\* otherwise as it was; the lookup by that id still returns the relationship
\* added first.
C17_DuplicateIdsAccepted ==
    /\ ret.op = "add_relationship" =>
          /\ ret.out = Return(Len(ret.before) + 1)
          /\ Len(rels[ret.src]) = Len(ret.before) + 1
          /\ SubSeq(rels[ret.src], 1, Len(ret.before)) = ret.before
          /\ rels[ret.src][Len(rels[ret.src])] =
                Relationship(ret.rId, ret.reltype, ret.target,
                             ret.is_external)
          /\ __getitem__(rels[ret.src], StrKey(ret.rId)) =
                Return(Min(WithRId(rels[ret.src], ret.rId)))
    /\ (ret.op = "__getitem__" /\ is_basestring(ret.key)) =>
          /\ rels[ret.src] = ret.before
          /\ IF WithRId(ret.before, ret.key.str) = {}
             THEN Raised(ret.out, "KeyError")
             ELSE ret.out = Return(Min(WithRId(ret.before, ret.key.str)))

\* 'rId3' was given to the first and to the third relationship, which
\* differ; the lookup of 'rId3' returns the first.
C17_Witness ==
    /\ ret.op = "__getitem__"
    /\ ret.key = StrKey(<<3>>)
    /\ WithRId(ret.before, <<3>>) = {1, 3}
    /\ ret.before[1] # ret.before[3]
    /\ ret.out = Return(1)

\* C18: a get_or_add on a collection that holds no internal relationship
\* with both this reltype and this target part (one with the same target and
\* another reltype, or the same reltype and another part, does not count)
\* appends one internal relationship, whose id is what _next_rId returned
\* before the call, and leaves the relationships before it as they were.
C18_AddsUnlessBothMatch ==
    (ret.op = "get_or_add"
        /\ InternalMatches(ret.before, ret.reltype, ret.target) = {})
        => /\ ret.out = Return(Len(ret.before) + 1)
           /\ Returned(_next_rId(ret.before))
           /\ rels[ret.src] =
                 Append(ret.before,
                        Relationship(_next_rId(ret.before).val, ret.reltype,
                                     ret.target, FALSE))

\* C19: whatever the order of the reader's part list, the unmarshal of a
\* well-formed reader output returns, and the graph it has built is the one
\* the relationship list describes, which does not depend on the part list:
\* the same sources, ids, reltypes and targets, in the same order per
\* source, also where a record's target comes later in the part list than
\* its source.
C19_PartOrderIndependent ==
    (ret.op = "unmarshal" /\ WellFormed(ret.reader))
        => /\ Returned(ret.out)
           /\ rels = ReaderGraph(ret.reader)

\* C20: get_or_add keeps the ids of a collection pairwise distinct: called
\* on a collection whose ids are pairwise distinct it leaves one whose ids
\* are, so they are after any sequence of such calls; and it creates a
\* relationship only where no internal relationship of that reltype to that
\* target part exists, so no pair is created twice.
C20_GetOrAddKeepsIdsDistinct ==
    ret.op = "get_or_add" =>
        /\ NoRepeat(_rIds(ret.before)) => NoRepeat(_rIds(rels[ret.src]))
        /\ Len(rels[ret.src]) > Len(ret.before) =>
              /\ InternalMatches(ret.before, ret.reltype, ret.target) = {}
              /\ InternalMatches(rels[ret.src], ret.reltype, ret.target)
                    = {Len(rels[ret.src])}

\* The collection held 'rId3' and 'rId01' for part A; get_or_add created
\* the relationship of the other reltype to A, as 'rId1'.
C20_Witness ==
    /\ ret.op = "get_or_add"
    /\ _rIds(ret.before) = <<<<3>>, <<0, 1>>>>
    /\ ret.before[1].target = ret.target
    /\ ret.before[1].reltype # ret.reltype
    /\ _rIds(rels[ret.src]) = <<<<3>>, <<0, 1>>, <<1>>>>

\* The parts of the hook calls among these events, in their order.
RECURSIVE HookedParts(_)
HookedParts(ev) ==
    IF ev = <<>> THEN <<>>
    ELSE LET e == ev[Len(ev)]
             before == HookedParts(SubSeq(ev, 1, Len(ev) - 1))
         IN  IF e.call = "PackageWriter.write" THEN before
             ELSE Append(before, e.part)

\* C21: the parts a save hands to the writer are the parts on which the save
\* called the pre-marshal hook before, in the same order, also where a hook
\* has added a relationship to a part.
C21_WrittenPartsWerePreMarshalled ==
    (ret.op = "save" /\ Returned(ret.out)) =>
        LET ev == ret.events
        IN  /\ WriterCalls(ev) = {Len(ev)}
            /\ ev[Len(ev)].parts = HookedParts(ev)

\* The value of an attribute of the table's first <a:tblPr>, "absent" when
\* there is no <a:tblPr> or it has no such attribute.
TblPrAttr(t, name) ==
    IF t.tblPr = <<>> THEN "absent"
    ELSE IF name \notin DOMAIN t.tblPr[1] THEN "absent"
    ELSE t.tblPr[1][name]

\* C22: for each of the six boolean properties, after a truthy value is
\* assigned the table has an <a:tblPr> (inserted if there was none) whose
\* attribute is the true value and the getter returns True; after a falsey value is
\* assigned the attribute is absent, the getter returns False and no
\* <a:tblPr> was created; the getter returns False where the <a:tblPr> or
\* the attribute is missing; and an assignment leaves the other five
\* properties as they were.
C22_BooleanProperties ==
    /\ ret.op = "__setattr__" =>
          /\ truthy(ret.value) =>
                /\ Len(tbl.tblPr) = (IF ret.before.tblPr = <<>> THEN 1
                                     ELSE Len(ret.before.tblPr))
                /\ TblPrAttr(tbl, ret.attr) = XSD_TRUE
                /\ _get_boolean_property(tbl, ret.attr) = TRUE
          /\ ~truthy(ret.value) =>
                /\ tbl.tblPr = <<>> <=> ret.before.tblPr = <<>>
                /\ TblPrAttr(tbl, ret.attr) = "absent"
                /\ _get_boolean_property(tbl, ret.attr) = FALSE
          /\ \A other \in BOOLPROPS \ {ret.attr} :
                /\ TblPrAttr(tbl, other) = TblPrAttr(ret.before, other)
                /\ _get_boolean_property(tbl, other)
                      = _get_boolean_property(ret.before, other)
    /\ ret.op = "__getattr__" =>
          /\ ret.out = Return(TblPrAttr(ret.before, ret.attr)
                                 \in {"1", "true"})
          /\ TblPrAttr(ret.before, ret.attr) = "absent"
                => ret.out = Return(FALSE)
          /\ tbl = ret.before

\* None was assigned to firstRow, which was "true", on a table whose
\* <a:tblPr> also has bandRow="0" and lastCol="1": firstRow is gone and the
\* other two are as they were.
C22_Witness ==
    /\ ret.op = "__setattr__"
    /\ ret.attr = "firstRow"
    /\ ret.value = "None"
    /\ TblPrAttr(ret.before, "firstRow") = "true"
    /\ TblPrAttr(ret.before, "bandRow") = "0"
    /\ TblPrAttr(ret.before, "lastCol") = "1"
    /\ TblPrAttr(tbl, "firstRow") = "absent"
    /\ TblPrAttr(tbl, "bandRow") = "0"
    /\ TblPrAttr(tbl, "lastCol") = "1"

====
